---- MODULE Spec2Model ----
(***************************************************************************)
(* Riskly: the pre-trade risk service of src/src/riskly_service.rs.        *)
(*                                                                         *)
(* RisklyService keeps one RisklyState behind a tokio Mutex and a watch    *)
(* channel that carries copies of it.  evaluate_trade locks the state,     *)
(* runs the checks and returns (dropping the guard).  add_trade first      *)
(* calls evaluate_trade, and then locks the state a second time to write   *)
(* the position and the daily volume and to send the new state on the      *)
(* watch channel; the guard is dropped when add_trade returns.             *)
(*                                                                         *)
(* Quantities, positions, volumes and limits are f64 in the source.  They  *)
(* are modelled as integers counting units of 0.5: sums and differences    *)
(* of such values of this size are exact in f64, so the comparisons are    *)
(* those of the source.                                                    *)
(***************************************************************************)
EXTENDS Integers, FiniteSets, Sequences, TLC

\* ------------------------------------------------------------------ bounds

\* Calls made to the service, each by a task of its own: they may run one
\* after another or overlap in any way.
NumTasks == 2
\* Largest trade quantity, in units of 0.5.
MaxQty == 3
\* The limits the configurations under test may carry, in units of 0.5.
PosLimit == 2
SizeLimit == 2
VolLimit == 3

Tasks == 1..NumTasks
NoTask == 0
Assets == {"BTC", "ETH"}
\* Trade.quantity is a double nothing validates: negative and zero included.
Quantities == {-1} \cup (1..MaxQty)
\* Trade.side is an i32: 0 = Buy, 1 = Sell, anything else is unknown.
Sides == {0, 1, 2}
Ops == {"evaluate", "add"}

VARIABLES
    config,     \* RisklyService.config (immutable after new)
    state,      \* RisklyService.state: the RisklyState inside the Mutex
    lock,       \* the task holding the Mutex guard, or NoTask
    chan,       \* the watch channel: its current value and version
    pc,         \* where each task is in its call
    op,         \* the method each task calls
    trade,      \* the argument of that call
    result,     \* what the call returned
    wrote,      \* whether the call has written the state
    sent        \* how many values the call has sent on the watch channel

vars == <<config, state, lock, chan, pc, op, trade, result, wrote, sent>>

\* ------------------------------------------------------------ HashMap

EmptyMap == [x \in {} |-> 0]

\* map.get(&k).cloned().unwrap_or(0.0)
GetOrZero(m, k) == IF k \in DOMAIN m THEN m[k] ELSE 0

\* map.insert(k, v)
Insert(m, k, v) == [x \in DOMAIN m \cup {k} |-> IF x = k THEN v ELSE m[x]]

\* f64::abs
Abs(x) == IF x < 0 THEN -x ELSE x

\* ------------------------------------------------------------ values

\* RisklyService::new: the empty state.
EmptyState ==
    [current_positions |-> EmptyMap, open_orders |-> <<>>, daily_volume |-> EmptyMap]

Limit(a, v) == [x \in {a} |-> v]

\* The configurations under test (RisklyConfig; the fields the service
\* never reads, max_allocation_per_asset_pct, max_slippage_pct and
\* listen_address, are left out).  FullConfig limits BTC in every dimension
\* and allows ETH without limits; PositionOnlyConfig is the configuration
\* with position limits alone (one of them for ETH) and BTC as the only
\* allowed asset.
FullConfig(enabled) ==
    [max_position_per_asset |-> Limit("BTC", PosLimit),
     max_trade_size |-> Limit("BTC", SizeLimit),
     max_daily_volume |-> Limit("BTC", VolLimit),
     allowed_assets |-> {"BTC", "ETH"},
     trading_enabled |-> enabled]

PositionOnlyConfig(enabled) ==
    [max_position_per_asset |-> [x \in {"BTC", "ETH"} |-> PosLimit],
     max_trade_size |-> EmptyMap,
     max_daily_volume |-> EmptyMap,
     allowed_assets |-> {"BTC"},
     trading_enabled |-> enabled]

Configs == {FullConfig(TRUE), PositionOnlyConfig(FALSE)}

\* The trades under test: every quantity and known side on BTC, the asset
\* the configurations allow and limit; the largest trades on ETH; trades of
\* unknown side, the smallest and the largest.
Trades ==
    [asset : {"BTC"}, quantity : Quantities, side : {0, 1}]
        \cup [asset : {"ETH"}, quantity : {MaxQty}, side : {0, 1}]
        \cup [asset : {"BTC"}, quantity : {1, MaxQty}, side : Sides \ {0, 1}]

Ok == [kind |-> "Ok", args |-> <<>>]
None == [kind |-> "None", args |-> <<>>]
Err(k, a) == [kind |-> k, args |-> a]

\* ------------------------------------------------------------ evaluate_trade

\* The match on trade.side at lines 70-79 (the unknown side returns early).
NewPosition(s, t) ==
    LET current_position == GetOrZero(s.current_positions, t.asset)
    IN  IF t.side = 0 THEN current_position + t.quantity
        ELSE current_position - t.quantity

\* Mutant: the whitelist check is missing.
EvaluateChecks_NoWhitelist(c, s, t) ==
    LET asset == t.asset
        quantity == t.quantity
        new_position == NewPosition(s, t)
        projected_volume == GetOrZero(s.daily_volume, asset) + quantity
    IN  IF asset \in DOMAIN c.max_trade_size /\ quantity > c.max_trade_size[asset]
            THEN Err("TradeTooLarge", <<quantity, c.max_trade_size[asset]>>)
        ELSE IF t.side \notin {0, 1}
            THEN Err("InvalidTradeSide", <<t.side>>)
        ELSE IF asset \in DOMAIN c.max_position_per_asset
                /\ Abs(new_position) > c.max_position_per_asset[asset]
            THEN Err("ExceedsMaxPosition",
                     <<new_position, c.max_position_per_asset[asset], asset>>)
        ELSE IF asset \in DOMAIN c.max_daily_volume
                /\ projected_volume > c.max_daily_volume[asset]
            THEN Err("ExceedsDailyVolume",
                     <<projected_volume, c.max_daily_volume[asset], asset>>)
        ELSE Ok

\* Mutant: the projected position is compared without abs(), so a short
\* position is never too large.
EvaluateChecks_NoAbs(c, s, t) ==
    LET asset == t.asset
        quantity == t.quantity
        new_position == NewPosition(s, t)
        projected_volume == GetOrZero(s.daily_volume, asset) + quantity
    IN  IF asset \notin c.allowed_assets
            THEN Err("DisallowedAsset", <<asset>>)
        ELSE IF asset \in DOMAIN c.max_trade_size /\ quantity > c.max_trade_size[asset]
            THEN Err("TradeTooLarge", <<quantity, c.max_trade_size[asset]>>)
        ELSE IF t.side \notin {0, 1}
            THEN Err("InvalidTradeSide", <<t.side>>)
        ELSE IF asset \in DOMAIN c.max_position_per_asset
                /\ new_position > c.max_position_per_asset[asset]
            THEN Err("ExceedsMaxPosition",
                     <<new_position, c.max_position_per_asset[asset], asset>>)
        ELSE IF asset \in DOMAIN c.max_daily_volume
                /\ projected_volume > c.max_daily_volume[asset]
            THEN Err("ExceedsDailyVolume",
                     <<projected_volume, c.max_daily_volume[asset], asset>>)
        ELSE Ok

\* Mutant: a quantity equal to max_trade_size is rejected too.
EvaluateChecks_SizeGE(c, s, t) ==
    LET asset == t.asset
        quantity == t.quantity
        new_position == NewPosition(s, t)
        projected_volume == GetOrZero(s.daily_volume, asset) + quantity
    IN  IF asset \notin c.allowed_assets
            THEN Err("DisallowedAsset", <<asset>>)
        ELSE IF asset \in DOMAIN c.max_trade_size /\ quantity >= c.max_trade_size[asset]
            THEN Err("TradeTooLarge", <<quantity, c.max_trade_size[asset]>>)
        ELSE IF t.side \notin {0, 1}
            THEN Err("InvalidTradeSide", <<t.side>>)
        ELSE IF asset \in DOMAIN c.max_position_per_asset
                /\ Abs(new_position) > c.max_position_per_asset[asset]
            THEN Err("ExceedsMaxPosition",
                     <<new_position, c.max_position_per_asset[asset], asset>>)
        ELSE IF asset \in DOMAIN c.max_daily_volume
                /\ projected_volume > c.max_daily_volume[asset]
            THEN Err("ExceedsDailyVolume",
                     <<projected_volume, c.max_daily_volume[asset], asset>>)
        ELSE Ok

\* Mutant: an asset without an entry in max_daily_volume has a max of 0.
EvaluateChecks_MissingIsZero(c, s, t) ==
    LET asset == t.asset
        quantity == t.quantity
        new_position == NewPosition(s, t)
        projected_volume == GetOrZero(s.daily_volume, asset) + quantity
    IN  IF asset \notin c.allowed_assets
            THEN Err("DisallowedAsset", <<asset>>)
        ELSE IF asset \in DOMAIN c.max_trade_size /\ quantity > c.max_trade_size[asset]
            THEN Err("TradeTooLarge", <<quantity, c.max_trade_size[asset]>>)
        ELSE IF t.side \notin {0, 1}
            THEN Err("InvalidTradeSide", <<t.side>>)
        ELSE IF asset \in DOMAIN c.max_position_per_asset
                /\ Abs(new_position) > c.max_position_per_asset[asset]
            THEN Err("ExceedsMaxPosition",
                     <<new_position, c.max_position_per_asset[asset], asset>>)
        ELSE IF projected_volume > GetOrZero(c.max_daily_volume, asset)
            THEN Err("ExceedsDailyVolume",
                     <<projected_volume, GetOrZero(c.max_daily_volume, asset), asset>>)
        ELSE Ok

\* Mutant: the daily volume check runs before the position check.
EvaluateChecks_VolumeFirst(c, s, t) ==
    LET asset == t.asset
        quantity == t.quantity
        new_position == NewPosition(s, t)
        projected_volume == GetOrZero(s.daily_volume, asset) + quantity
    IN  IF asset \notin c.allowed_assets
            THEN Err("DisallowedAsset", <<asset>>)
        ELSE IF asset \in DOMAIN c.max_trade_size /\ quantity > c.max_trade_size[asset]
            THEN Err("TradeTooLarge", <<quantity, c.max_trade_size[asset]>>)
        ELSE IF t.side \notin {0, 1}
            THEN Err("InvalidTradeSide", <<t.side>>)
        ELSE IF asset \in DOMAIN c.max_daily_volume
                /\ projected_volume > c.max_daily_volume[asset]
            THEN Err("ExceedsDailyVolume",
                     <<projected_volume, c.max_daily_volume[asset], asset>>)
        ELSE IF asset \in DOMAIN c.max_position_per_asset
                /\ Abs(new_position) > c.max_position_per_asset[asset]
            THEN Err("ExceedsMaxPosition",
                     <<new_position, c.max_position_per_asset[asset], asset>>)
        ELSE Ok

\* The checks of evaluate_trade against the locked state s, in source order.
EvaluateChecks(c, s, t) ==
    LET asset == t.asset
        quantity == t.quantity
        new_position == NewPosition(s, t)
        projected_volume == GetOrZero(s.daily_volume, asset) + quantity
    IN  IF asset \notin c.allowed_assets
            THEN Err("DisallowedAsset", <<asset>>)
        ELSE IF asset \in DOMAIN c.max_trade_size /\ quantity > c.max_trade_size[asset]
            THEN Err("TradeTooLarge", <<quantity, c.max_trade_size[asset]>>)
        ELSE IF t.side \notin {0, 1}
            THEN Err("InvalidTradeSide", <<t.side>>)
        ELSE IF asset \in DOMAIN c.max_position_per_asset
                /\ Abs(new_position) > c.max_position_per_asset[asset]
            THEN Err("ExceedsMaxPosition",
                     <<new_position, c.max_position_per_asset[asset], asset>>)
        ELSE IF asset \in DOMAIN c.max_daily_volume
                /\ projected_volume > c.max_daily_volume[asset]
            THEN Err("ExceedsDailyVolume",
                     <<projected_volume, c.max_daily_volume[asset], asset>>)
        ELSE Ok

\* ------------------------------------------------------------ add_trade

\* Mutant: a Sell of an asset that has a position adds the quantity.
UpdatePosition_SellAdds(positions, t) ==
    IF t.asset \in DOMAIN positions
        THEN [positions EXCEPT ![t.asset] = @ + t.quantity]
        ELSE Insert(positions, t.asset,
                    IF t.side = 0 THEN t.quantity ELSE -t.quantity)

\* Lines 125-156: the position of trade.asset after the write (side is 0 or 1).
UpdatePosition(positions, t) ==
    IF t.asset \in DOMAIN positions
        THEN [positions EXCEPT ![t.asset] =
                 IF t.side = 0 THEN @ + t.quantity ELSE @ - t.quantity]
        ELSE Insert(positions, t.asset,
                    IF t.side = 0 THEN t.quantity ELSE -t.quantity)

\* Mutant: the write of the volume forgets the volume already stored.
UpdateVolume_Overwrites(volumes, t) ==
    Insert(volumes, t.asset, t.quantity)

\* Lines 158-166: daily_volume.insert(asset, current_volume + quantity).
UpdateVolume(volumes, t) ==
    Insert(volumes, t.asset, GetOrZero(volumes, t.asset) + t.quantity)

\* What add_trade writes under its second lock.
ApplyTrade(s, t) ==
    [s EXCEPT !.current_positions = UpdatePosition(s.current_positions, t),
              !.daily_volume = UpdateVolume(s.daily_volume, t)]

\* Mutant: send wakes the receivers and keeps the value the channel held.
Send_KeepsValue(ch, s) == [value |-> ch.value, version |-> ch.version + 1]

\* state_tx.send(Ok(current_state.clone())): the value is replaced and the
\* version advances.  The service owns state_rx, so send never fails.
Send(ch, s) == [value |-> s, version |-> ch.version + 1]

\* ------------------------------------------------------------ initial state

Init ==
    /\ config \in Configs
    /\ state = EmptyState
    /\ lock = NoTask
    /\ chan = [value |-> EmptyState, version |-> 0]
    /\ pc = [t \in Tasks |-> "idle"]
    /\ op = [t \in Tasks |-> "evaluate"]
    /\ trade = [t \in Tasks |-> [asset |-> "BTC", quantity |-> 1, side |-> 0]]
    /\ result = [t \in Tasks |-> None]
    /\ wrote = [t \in Tasks |-> FALSE]
    /\ sent = [t \in Tasks |-> 0]

\* ------------------------------------------------------------ actions

\* A caller enters evaluate_trade or add_trade with trade tr.
Call(t, o, tr) ==
    /\ pc[t] = "idle"
    /\ pc' = [pc EXCEPT ![t] = "ev_lock"]
    /\ op' = [op EXCEPT ![t] = o]
    /\ trade' = [trade EXCEPT ![t] = tr]
    /\ UNCHANGED <<config, state, lock, chan, result, wrote, sent>>

\* evaluate_trade, line 43: self.state.lock().await completes.
EvalLock(t) ==
    /\ pc[t] = "ev_lock"
    /\ lock = NoTask
    /\ lock' = t
    /\ pc' = [pc EXCEPT ![t] = "ev_check"]
    /\ UNCHANGED <<config, state, chan, op, trade, result, wrote, sent>>

\* Mutant: an early error return of evaluate_trade keeps the guard.
EvalReturn_KeepsLockOnError(t) ==
    /\ pc[t] = "ev_check"
    /\ lock = t
    /\ LET r == EvaluateChecks(config, state, trade[t])
       IN  /\ IF op[t] = "add" /\ r = Ok
                  THEN /\ pc' = [pc EXCEPT ![t] = "add_lock"]
                       /\ UNCHANGED result
                  ELSE /\ pc' = [pc EXCEPT ![t] = "done"]
                       /\ result' = [result EXCEPT ![t] = r]
           /\ lock' = IF r = Ok THEN NoTask ELSE t
    /\ UNCHANGED <<config, state, chan, op, trade, wrote, sent>>

\* Mutant: add_trade counts the trade's volume before the checks decide.
EvalReturn_CountsVolume(t) ==
    /\ pc[t] = "ev_check"
    /\ lock = t
    /\ LET r == EvaluateChecks(config, state, trade[t])
       IN  IF op[t] = "add" /\ r = Ok
               THEN /\ pc' = [pc EXCEPT ![t] = "add_lock"]
                    /\ UNCHANGED result
               ELSE /\ pc' = [pc EXCEPT ![t] = "done"]
                    /\ result' = [result EXCEPT ![t] = r]
    /\ state' = IF op[t] = "add"
                    THEN [state EXCEPT !.daily_volume = UpdateVolume(@, trade[t])]
                    ELSE state
    /\ lock' = NoTask
    /\ UNCHANGED <<config, chan, op, trade, wrote, sent>>

\* Mutant: evaluate_trade sends the state it checked on the watch channel.
EvalReturn_Publishes(t) ==
    /\ pc[t] = "ev_check"
    /\ lock = t
    /\ LET r == EvaluateChecks(config, state, trade[t])
       IN  IF op[t] = "add" /\ r = Ok
               THEN /\ pc' = [pc EXCEPT ![t] = "add_lock"]
                    /\ UNCHANGED result
               ELSE /\ pc' = [pc EXCEPT ![t] = "done"]
                    /\ result' = [result EXCEPT ![t] = r]
    /\ chan' = Send(chan, state)
    /\ lock' = NoTask
    /\ UNCHANGED <<config, state, op, trade, wrote, sent>>

\* evaluate_trade, lines 48-114: the checks run on the locked state and the
\* function returns, which drops the guard.  In add_trade (line 118) an error
\* is returned to the caller by `?`, and Ok lets add_trade go on.
EvalReturn(t) ==
    /\ pc[t] = "ev_check"
    /\ lock = t
    /\ LET r == EvaluateChecks(config, state, trade[t])
       IN  IF op[t] = "add" /\ r = Ok
               THEN /\ pc' = [pc EXCEPT ![t] = "add_lock"]
                    /\ UNCHANGED result
               ELSE /\ pc' = [pc EXCEPT ![t] = "done"]
                    /\ result' = [result EXCEPT ![t] = r]
    /\ lock' = NoTask
    /\ UNCHANGED <<config, state, chan, op, trade, wrote, sent>>

\* add_trade, line 123: the second self.state.lock().await completes.
AddLock(t) ==
    /\ pc[t] = "add_lock"
    /\ lock = NoTask
    /\ lock' = t
    /\ pc' = [pc EXCEPT ![t] = "add_write"]
    /\ UNCHANGED <<config, state, chan, op, trade, result, wrote, sent>>

\* add_trade, lines 125-166: the position and the daily volume are written.
\* An unknown side returns InvalidTradeSide before any write (lines 132-137
\* and 149-154), dropping the guard.
AddWrite(t) ==
    /\ pc[t] = "add_write"
    /\ lock = t
    /\ IF trade[t].side \notin {0, 1}
           THEN /\ result' = [result EXCEPT ![t] = Err("InvalidTradeSide", <<trade[t].side>>)]
                /\ pc' = [pc EXCEPT ![t] = "done"]
                /\ lock' = NoTask
                /\ UNCHANGED <<state, wrote>>
           ELSE /\ state' = ApplyTrade(state, trade[t])
                /\ wrote' = [wrote EXCEPT ![t] = TRUE]
                /\ pc' = [pc EXCEPT ![t] = "add_send"]
                /\ UNCHANGED <<result, lock>>
    /\ UNCHANGED <<config, chan, op, trade, sent>>

\* Mutant: add_trade does not send the new state.
AddSend_Skips(t) ==
    /\ pc[t] = "add_send"
    /\ lock = t
    /\ pc' = [pc EXCEPT ![t] = "add_ret"]
    /\ UNCHANGED <<config, state, lock, chan, op, trade, result, wrote, sent>>

\* add_trade, lines 168-170: the new state is sent on the watch channel; the
\* guard current_state is still alive.
AddSend(t) ==
    /\ pc[t] = "add_send"
    /\ lock = t
    /\ chan' = Send(chan, state)
    /\ sent' = [sent EXCEPT ![t] = @ + 1]
    /\ pc' = [pc EXCEPT ![t] = "add_ret"]
    /\ UNCHANGED <<config, state, lock, op, trade, result, wrote>>

\* add_trade, line 172: Ok(()) is returned and the guard is dropped.
AddReturn(t) ==
    /\ pc[t] = "add_ret"
    /\ lock = t
    /\ lock' = NoTask
    /\ result' = [result EXCEPT ![t] = Ok]
    /\ pc' = [pc EXCEPT ![t] = "done"]
    /\ UNCHANGED <<config, state, chan, op, trade, wrote, sent>>

Step(t) ==
    \/ EvalLock(t)
    \/ EvalReturn(t)
    \/ AddLock(t)
    \/ AddWrite(t)
    \/ AddSend(t)
    \/ AddReturn(t)

Next ==
    \/ \E t \in Tasks, o \in Ops, tr \in Trades : Call(t, o, tr)
    \/ \E t \in Tasks : Step(t)

Spec == Init /\ [][Next]_vars

\* The service under fair scheduling: a task whose call can take a step
\* and stays able to takes it (the runtime polls every ready future, and the
\* tokio Mutex wakes a waiter when the lock is free).  Nothing obliges a
\* client to call.
Fairness == \A t \in Tasks : WF_vars(Step(t))

\* The trades of the fair runs: the quantities at and above max_trade_size,
\* which take a call through the Ok path and through each of the early
\* error returns.
FairTrades == {tr \in Trades : tr.quantity >= SizeLimit}

NextFair ==
    \/ \E t \in Tasks, o \in Ops, tr \in FairTrades : Call(t, o, tr)
    \/ \E t \in Tasks : Step(t)

SpecFair == Init /\ [][NextFair]_vars /\ Fairness

\* The same service when every caller keeps to quantity > 0.
PositiveTrades == {tr \in Trades : tr.quantity > 0}

NextPositive ==
    \/ \E t \in Tasks, o \in Ops, tr \in PositiveTrades : Call(t, o, tr)
    \/ \E t \in Tasks : Step(t)

SpecPositive == Init /\ [][NextPositive]_vars

\* The same service when no two calls overlap: a call is entered only when
\* no other call is in progress.
NoCallInProgress == \A t \in Tasks : pc[t] \in {"idle", "done"}

NextSequential ==
    \/ \E t \in Tasks, o \in Ops, tr \in Trades : NoCallInProgress /\ Call(t, o, tr)
    \/ \E t \in Tasks : Step(t)

SpecSequential == Init /\ [][NextSequential]_vars

\* The RPCs of the server that read or clear the daily volume.  Their bodies
\* are unimplemented!(): the call panics, touches no field of the service and
\* the caller gets no response.
Panic == Err("Panic", <<"not implemented">>)

ResetDailyLimits(t) ==
    /\ pc[t] = "idle"
    /\ op' = [op EXCEPT ![t] = "reset_daily_limits"]
    /\ result' = [result EXCEPT ![t] = Panic]
    /\ pc' = [pc EXCEPT ![t] = "done"]
    /\ UNCHANGED <<config, state, lock, chan, trade, wrote, sent>>

GetDailyVolume(t) ==
    /\ pc[t] = "idle"
    /\ op' = [op EXCEPT ![t] = "get_daily_volume"]
    /\ result' = [result EXCEPT ![t] = Panic]
    /\ pc' = [pc EXCEPT ![t] = "done"]
    /\ UNCHANGED <<config, state, lock, chan, trade, wrote, sent>>

\* The service together with these RPCs.
NextReset ==
    \/ Next
    \/ \E t \in Tasks : ResetDailyLimits(t)
    \/ \E t \in Tasks : GetDailyVolume(t)

SpecReset == Init /\ [][NextReset]_vars

\* ------------------------------------------------------------ properties

Done(t) == pc[t] = "done"
Position(a) == GetOrZero(state.current_positions, a)
Volume(a) == GetOrZero(state.daily_volume, a)
Signed(tr) == IF tr.side = 0 THEN tr.quantity ELSE -tr.quantity
\* Task t takes a step of its call.
Moves(t) == pc'[t] # pc[t]
\* Task t returns from its call in this step.
Returns(t) == pc[t] # "done" /\ pc'[t] = "done"

\* C1.  Check-then-act atomicity of add_trade (trading enabled, positive
\* quantities): when the only two calls are add_trade calls on the same asset, each of which passes every check
\* against the initial state, and together they would take |position| above
\* max_position_per_asset, then exactly one returns Ok and the other
\* returns ExceedsMaxPosition.
C1_CheckThenActAtomic ==
    \A t, u \in Tasks :
        ( /\ t # u
          /\ config.trading_enabled
          /\ Done(t) /\ Done(u)
          /\ \A w \in Tasks \ {t, u} : pc[w] = "idle"
          /\ op[t] = "add" /\ op[u] = "add"
          /\ trade[t].asset = trade[u].asset
          /\ trade[t].asset \in DOMAIN config.max_position_per_asset
          /\ EvaluateChecks(config, EmptyState, trade[t]) = Ok
          /\ EvaluateChecks(config, EmptyState, trade[u]) = Ok
          /\ Abs(Signed(trade[t]) + Signed(trade[u]))
                 > config.max_position_per_asset[trade[t].asset] )
        => \/ result[t] = Ok /\ result[u].kind = "ExceedsMaxPosition"
           \/ result[u] = Ok /\ result[t].kind = "ExceedsMaxPosition"

\* C2.  Limits hold in every reachable state: with trading enabled and
\* positive quantities, the daily volume of an asset never exceeds its
\* configured max_daily_volume.
C2_DailyVolumeWithinLimit ==
    config.trading_enabled =>
    \A a \in DOMAIN config.max_daily_volume : Volume(a) <= config.max_daily_volume[a]

\* C3.  Trading gate: while trading_enabled is false every evaluate_trade and
\* add_trade call is rejected with TradingDisabled and no trade is admitted
\* into the state.
C3_TradingGate ==
    ~config.trading_enabled =>
        /\ \A t \in Tasks : Done(t) => result[t].kind = "TradingDisabled"
        /\ state = EmptyState

\* C4.  Whitelist invariant: the keys of current_positions and daily_volume
\* are allowed assets, in the state and in every value sent on the watch
\* channel, and a call for an asset outside allowed_assets returns
\* DisallowedAsset(asset) without having reached a map write.
C4_WhitelistInvariant ==
    /\ DOMAIN state.current_positions \subseteq config.allowed_assets
    /\ DOMAIN state.daily_volume \subseteq config.allowed_assets
    /\ DOMAIN chan.value.current_positions \subseteq config.allowed_assets
    /\ DOMAIN chan.value.daily_volume \subseteq config.allowed_assets
    /\ \A t \in Tasks :
           trade[t].asset \notin config.allowed_assets =>
               /\ pc[t] \in {"idle", "ev_lock", "ev_check", "done"}
               /\ ~wrote[t]
               /\ Done(t) => /\ result[t].kind = "DisallowedAsset"
                             /\ result[t].args = <<trade[t].asset>>

\* A call for a disallowed asset was rejected while another trade was written.
C4_Witness ==
    \E t \in Tasks :
        /\ Done(t)
        /\ trade[t].asset \notin config.allowed_assets
        /\ result[t].kind = "DisallowedAsset"
        /\ state.current_positions # EmptyMap

\* The trade of task t gets as far as the position check of evaluate_trade:
\* its asset is allowed, its quantity is within max_trade_size and its side
\* is Buy or Sell.
ReachesPositionCheck(t) ==
    /\ trade[t].asset \in config.allowed_assets
    /\ ~( /\ trade[t].asset \in DOMAIN config.max_trade_size
          /\ trade[t].quantity > config.max_trade_size[trade[t].asset] )
    /\ trade[t].side \in {0, 1}

\* The trade of task t passes the daily volume check against the state.
PassesVolumeCheck(t) ==
    trade[t].asset \in DOMAIN config.max_daily_volume =>
        Volume(trade[t].asset) + trade[t].quantity
            <= config.max_daily_volume[trade[t].asset]

\* The position the add_trade call of task t projects from the state.
Projected(t) == Position(trade[t].asset) + Signed(trade[t])

\* The check of task t rejects a projected position above the max with
\* ExceedsMaxPosition and leaves the state as it was.
RejectedAboveMax(t) ==
    ( /\ pc[t] = "ev_check" /\ Moves(t)
      /\ Abs(Projected(t)) > config.max_position_per_asset[trade[t].asset] )
    => /\ Returns(t)
       /\ result'[t].kind = "ExceedsMaxPosition"
       /\ state' = state

\* A trade that passes every check, its projected position within the max,
\* goes on to the write; the write stores the projected position, still
\* within the max; and the call returns Ok.
AdmittedWithinMax(t) ==
    LET a == trade[t].asset
        max == config.max_position_per_asset[a]
    IN  /\ ( /\ pc[t] = "ev_check" /\ Moves(t)
             /\ ReachesPositionCheck(t) /\ PassesVolumeCheck(t)
             /\ Abs(Projected(t)) <= max )
           => pc'[t] = "add_lock"
        /\ (pc[t] = "add_write" /\ Moves(t)) =>
               /\ Abs(Projected(t)) <= max
               /\ a \in DOMAIN state'.current_positions
               /\ state'.current_positions[a] = Projected(t)
               /\ pc'[t] = "add_send"
        /\ (pc[t] = "add_ret" /\ Moves(t)) => result'[t] = Ok

\* C5 (as amended).  Sequential position cap: with add_trade calls applied
\* one after another, a trade that passes the whitelist and trade size checks
\* and whose projected position current_position +/- quantity is above the
\* configured max_position_per_asset in absolute value is rejected with
\* ExceedsMaxPosition and the state keeps its value; one whose projected
\* position is within the max, and that passes the other checks, succeeds
\* and the position becomes the projected one.
C5_SequentialPositionCap ==
    [][\A t \in Tasks :
          ( /\ op[t] = "add"
            /\ trade[t].asset \in DOMAIN config.max_position_per_asset
            /\ trade[t].side \in {0, 1} )
          => /\ ReachesPositionCheck(t) => RejectedAboveMax(t)
             /\ AdmittedWithinMax(t)]_vars

\* C5 as claimed (trading enabled): every Buy or Sell whose projected
\* position is above the configured max is rejected with ExceedsMaxPosition,
\* whatever the other checks say of it.
C5_AsClaimed ==
    [][\A t \in Tasks :
          ( /\ config.trading_enabled
            /\ op[t] = "add"
            /\ trade[t].asset \in DOMAIN config.max_position_per_asset
            /\ trade[t].side \in {0, 1} )
          => /\ RejectedAboveMax(t)
             /\ AdmittedWithinMax(t)]_vars

\* The scenario of the claim: one add_trade succeeded and gave the position
\* its value, a later one was rejected with ExceedsMaxPosition and the
\* position kept that value.
C5_Witness ==
    \E t, u \in Tasks :
        /\ Done(t) /\ Done(u)
        /\ op[t] = "add" /\ op[u] = "add"
        /\ trade[t].asset = "BTC" /\ trade[u].asset = "BTC"
        /\ result[t] = Ok
        /\ result[u].kind = "ExceedsMaxPosition"
        /\ Position("BTC") = Signed(trade[t])
        /\ Signed(trade[t]) > 0 /\ Signed(trade[u]) > 0

\* C6.  All-or-nothing on denial: a step in which an add_trade call returns
\* an error leaves current_positions, open_orders, daily_volume and the watch
\* channel as they were, and that call has written nothing and sent nothing
\* before it.
C6_DenialWritesNothing ==
    [][\A t \in Tasks :
          (Returns(t) /\ op[t] = "add" /\ result'[t] # Ok)
          => /\ state' = state
             /\ chan' = chan
             /\ ~wrote[t] /\ ~wrote'[t]
             /\ sent[t] = 0 /\ sent'[t] = 0]_vars

\* An add_trade was denied by the last check, the daily volume, after
\* another trade had been written.
C6_Witness ==
    \E t \in Tasks :
        /\ Done(t) /\ op[t] = "add"
        /\ result[t].kind = "ExceedsDailyVolume"
        /\ state # EmptyState
        /\ chan.value = state

\* C7.  evaluate_trade is a pure check: no step of evaluate_trade, alone or
\* as the first part of add_trade, changes the state or the watch channel,
\* whatever it returns, and a call of evaluate_trade never gets to the write
\* or the send of add_trade.
C7_EvaluateIsPure ==
    [][\A t \in Tasks :
          /\ (Moves(t) /\ pc[t] \in {"idle", "ev_lock", "ev_check"})
                 => (state' = state /\ chan' = chan)
          /\ op'[t] = "evaluate"
                 => /\ pc'[t] \in {"idle", "ev_lock", "ev_check", "done"}
                    /\ ~wrote'[t]
                    /\ sent'[t] = 0]_vars

\* One evaluate_trade returned Ok and another an error, and the state and
\* the channel are still those of RisklyService::new.
C7_Witness ==
    \E t, u \in Tasks :
        /\ Done(t) /\ Done(u)
        /\ op[t] = "evaluate" /\ op[u] = "evaluate"
        /\ result[t] = Ok
        /\ result[u].kind = "TradeTooLarge"
        /\ state = EmptyState
        /\ chan.version = 0

\* C8.  daily_volume is monotonically non-decreasing (trading enabled): no
\* step lowers the stored daily volume of any asset, and the write of an
\* accepted add_trade raises the volume of its asset by the quantity of the
\* trade as given, not signed by its side.
C8_DailyVolumeMonotone ==
    [][config.trading_enabled =>
          /\ \A a \in Assets :
                 GetOrZero(state'.daily_volume, a) >= Volume(a)
          /\ \A t \in Tasks :
                 (pc[t] = "add_write" /\ pc'[t] = "add_send")
                 => GetOrZero(state'.daily_volume, trade[t].asset)
                        = Volume(trade[t].asset) + trade[t].quantity]_vars

\* C9.  Round trip of add_trade: the write of a successful add_trade leaves
\* the position of trade.asset at exactly the previous position (0 if
\* absent) plus the quantity for Buy, minus the quantity for Sell, and leaves
\* the positions of all other assets as they were; a call that returns Ok
\* has made that write.
C9_RoundTrip ==
    [][\A t \in Tasks :
          /\ (pc[t] = "add_write" /\ pc'[t] = "add_send") =>
                 /\ trade[t].asset \in DOMAIN state'.current_positions
                 /\ state'.current_positions[trade[t].asset] =
                        IF trade[t].side = 0
                            THEN Position(trade[t].asset) + trade[t].quantity
                            ELSE Position(trade[t].asset) - trade[t].quantity
                 /\ \A b \in Assets \ {trade[t].asset} :
                        /\ b \in DOMAIN state'.current_positions
                               <=> b \in DOMAIN state.current_positions
                        /\ GetOrZero(state'.current_positions, b) = Position(b)
          /\ (Returns(t) /\ op[t] = "add" /\ result'[t] = Ok) =>
                 (wrote[t] /\ pc[t] = "add_ret")
          /\ (Moves(t) /\ pc[t] # "add_write") =>
                 state'.current_positions = state.current_positions]_vars

\* Two add_trade calls on BTC returned Ok, a Buy and then a Sell of another
\* quantity, and the position is the difference.
C9_Witness ==
    \E t, u \in Tasks :
        /\ Done(t) /\ Done(u)
        /\ op[t] = "add" /\ op[u] = "add"
        /\ result[t] = Ok /\ result[u] = Ok
        /\ trade[t] = [asset |-> "BTC", quantity |-> 2, side |-> 0]
        /\ trade[u] = [asset |-> "BTC", quantity |-> 1, side |-> 1]
        /\ Position("BTC") = 1

\* C10.  State stream: the watch channel starts with the state of
\* RisklyService::new as its value, which a receiver attached then reads;
\* the send of add_trade replaces the value by the state that holds the
\* call's write and advances the version, which wakes the receivers; nothing
\* else touches the channel; and a call has sent exactly one value when it
\* returns Ok from add_trade, and none when it returns an error or returns
\* from evaluate_trade.
C10_StateStream ==
    [][/\ chan.version = 0 => chan.value = EmptyState
       /\ \A t \in Tasks :
             /\ (pc[t] = "add_send" /\ Moves(t)) =>
                    /\ wrote[t]
                    /\ chan'.value = state
                    /\ chan'.version = chan.version + 1
             /\ (Moves(t) /\ pc[t] # "add_send") => chan' = chan
             /\ Returns(t) =>
                    sent[t] = IF op[t] = "add" /\ result'[t] = Ok THEN 1 ELSE 0]_vars

\* One add_trade returned Ok and its state is the channel's value, version 1;
\* another call failed and sent nothing.
C10_Witness ==
    \E t, u \in Tasks :
        /\ Done(t) /\ Done(u)
        /\ op[t] = "add" /\ result[t] = Ok /\ sent[t] = 1
        /\ result[u] # Ok /\ sent[u] = 0
        /\ chan.version = 1
        /\ chan.value = state
        /\ state # EmptyState

\* C11.  Publish happens outside the lock: the value of the watch channel
\* changes only in steps taken while no task holds the state Mutex.
C11_PublishOutsideLock ==
    [][chan' # chan => lock = NoTask]_vars

\* C12.  Side validation (trading enabled): a call whose side is neither Buy
\* nor Sell returns InvalidTradeSide, never another kind of error, whatever
\* its asset and quantity.
C12_UnknownSideRejected ==
    \A t \in Tasks :
        ( /\ config.trading_enabled
          /\ Done(t)
          /\ trade[t].side \notin {0, 1} )
            => result[t].kind = "InvalidTradeSide"

\* The trade of task t fails the whitelist check.
FailsWhitelist(t) == trade[t].asset \notin config.allowed_assets

\* The trade of task t fails the max_trade_size check.
FailsTradeSize(t) ==
    /\ trade[t].asset \in DOMAIN config.max_trade_size
    /\ trade[t].quantity > config.max_trade_size[trade[t].asset]

\* The trade of task t fails the max position check against the state.
FailsPosition(t) ==
    /\ trade[t].asset \in DOMAIN config.max_position_per_asset
    /\ Abs(Projected(t)) > config.max_position_per_asset[trade[t].asset]

\* The trade of task t fails the daily volume check against the state.
FailsVolume(t) == ~PassesVolumeCheck(t)

\* The outcome of the checks of task t in this step: the kind of the error
\* it returns, or Ok when the checks pass.
Outcome(t) == IF pc'[t] = "done" THEN result'[t].kind ELSE "Ok"

\* C13.  Check order: the checks of a Buy or Sell run in the order whitelist,
\* max_trade_size, max position, daily volume, and the error returned is
\* that of the earliest check the trade fails against the locked state.
C13_EarliestViolatedCheck ==
    [][\A t \in Tasks :
          (pc[t] = "ev_check" /\ Moves(t) /\ trade[t].side \in {0, 1})
              => Outcome(t) =
                    IF FailsWhitelist(t) THEN "DisallowedAsset"
                    ELSE IF FailsTradeSize(t) THEN "TradeTooLarge"
                    ELSE IF FailsPosition(t) THEN "ExceedsMaxPosition"
                    ELSE IF FailsVolume(t) THEN "ExceedsDailyVolume"
                    ELSE "Ok"]_vars

\* Witness of C13: after an add_trade moved the position to the max, an
\* evaluate_trade of a trade that fails both the position and the daily
\* volume check has returned the error of the position check.
C13_Witness ==
    \E t, u \in Tasks :
        /\ t # u
        /\ Done(u) /\ wrote[u]
        /\ Done(t) /\ op[t] = "evaluate"
        /\ trade[t].side \in {0, 1}
        /\ ~FailsWhitelist(t) /\ ~FailsTradeSize(t)
        /\ FailsPosition(t) /\ FailsVolume(t)
        /\ result[t].kind = "ExceedsMaxPosition"

\* C14.  Order size: a trade of an allowed asset whose quantity is strictly
\* above the max_trade_size of the asset fails with TradeTooLarge(quantity,
\* max) whatever the state and the side, and the call leaves the state as it
\* is; a quantity equal to the max is not rejected by this check.
C14_TradeTooLarge ==
    [][\A t \in Tasks :
          (pc[t] = "ev_check" /\ Moves(t) /\ ~FailsWhitelist(t))
              => /\ FailsTradeSize(t)
                    => /\ pc'[t] = "done"
                       /\ result'[t] =
                            Err("TradeTooLarge",
                                <<trade[t].quantity,
                                  config.max_trade_size[trade[t].asset]>>)
                       /\ state' = state
                       /\ ~wrote'[t]
                 /\ ( /\ trade[t].asset \in DOMAIN config.max_trade_size
                      /\ trade[t].quantity = config.max_trade_size[trade[t].asset] )
                    => Outcome(t) # "TradeTooLarge"]_vars

\* Witness of C14: in a state that holds a position, one call of a quantity
\* above the max has returned TradeTooLarge and an add_trade of a quantity
\* equal to the max has returned Ok.
C14_Witness ==
    \E t, u \in Tasks :
        /\ t # u
        /\ Done(u) /\ wrote[u] /\ result[u] = Ok
        /\ trade[u].asset \in DOMAIN config.max_trade_size
        /\ trade[u].quantity = config.max_trade_size[trade[u].asset]
        /\ Done(t) /\ ~FailsWhitelist(t) /\ FailsTradeSize(t)
        /\ result[t].kind = "TradeTooLarge"
        /\ Position(trade[t].asset) # 0

\* Asset a has no entry in any limit map that evaluate_trade reads.
Unlimited(a) ==
    /\ a \notin DOMAIN config.max_trade_size
    /\ a \notin DOMAIN config.max_position_per_asset
    /\ a \notin DOMAIN config.max_daily_volume

\* C15.  Absence of a limit means no limit: the checks of a Buy or Sell of a
\* positive quantity of an allowed asset without an entry in any limit map
\* pass in every reachable state, and evaluate_trade returns Ok.
C15_NoLimitNoRejection ==
    [][\A t \in Tasks :
          ( /\ pc[t] = "ev_check" /\ Moves(t)
            /\ trade[t].asset \in config.allowed_assets
            /\ Unlimited(trade[t].asset)
            /\ trade[t].side \in {0, 1}
            /\ trade[t].quantity > 0 )
              => /\ Outcome(t) = "Ok"
                 /\ op[t] = "evaluate" => (pc'[t] = "done" /\ result'[t] = Ok)]_vars

\* Witness of C15: an evaluate_trade of an allowed asset without limits has
\* returned Ok, next to an add_trade that gave the asset a position and a
\* daily volume.
C15_Witness ==
    \E t \in Tasks :
        /\ Done(t) /\ op[t] = "evaluate" /\ result[t] = Ok
        /\ trade[t].asset \in config.allowed_assets
        /\ Unlimited(trade[t].asset)
        /\ Position(trade[t].asset) # 0
        /\ Volume(trade[t].asset) >= MaxQty

\* C16.  Daily reset: a reset_daily_limits call always succeeds, and it
\* leaves the daily volume of every asset at 0.
C16_DailyReset ==
    [][\A t \in Tasks :
          (Returns(t) /\ op'[t] = "reset_daily_limits")
              => /\ result'[t] = Ok
                 /\ \A a \in Assets : GetOrZero(state'.daily_volume, a) = 0]_vars

\* Every call that was made has returned.
AllReturned == \A t \in Tasks : pc[t] \in {"idle", "done"}

\* The add_trade calls on asset a that returned Ok.
AcceptedAdds(a) ==
    {t \in Tasks : Done(t) /\ op[t] = "add" /\ result[t] = Ok /\ trade[t].asset = a}

\* The sum of the quantities of the trades of the tasks in T, signed by
\* their side (+ for Buy, - for Sell).
RECURSIVE SumSigned(_)
SumSigned(T) ==
    IF T = {} THEN 0
    ELSE LET t == CHOOSE x \in T : TRUE
         IN  Signed(trade[t]) + SumSigned(T \ {t})

\* The sum of the quantities of the trades of the tasks in T, whatever
\* their side.
RECURSIVE SumQuantity(_)
SumQuantity(T) ==
    IF T = {} THEN 0
    ELSE LET t == CHOOSE x \in T : TRUE
         IN  trade[t].quantity + SumQuantity(T \ {t})

\* C17.  No lost updates: whatever the interleaving of the calls, once all
\* of them have returned the position of every asset is the sum of the
\* quantities, signed by side, of the add_trade calls on it that returned
\* Ok, and its daily volume the sum of their quantities taken without the
\* sign of the side.
C17_NoLostUpdates ==
    AllReturned =>
        \A a \in Assets :
            /\ Position(a) = SumSigned(AcceptedAdds(a))
            /\ Volume(a) = SumQuantity(AcceptedAdds(a))

\* Witness of C17: two add_trade calls on one asset, a Buy and a Sell, have
\* both returned Ok and have left a position and a volume.
C17_Witness ==
    \E t, u \in Tasks, a \in Assets :
        /\ AllReturned
        /\ AcceptedAdds(a) = {t, u}
        /\ trade[t].side = 0 /\ trade[u].side = 1
        /\ Position(a) # 0
        /\ Volume(a) = trade[t].quantity + trade[u].quantity
        /\ Volume(a) > MaxQty - 1

\* C18.  Snapshot consistency: in every reachable state in which no task
\* holds the state Mutex, the latest value of the watch channel is the
\* current state, from the initial state on and after the publishes of
\* concurrent add_trade calls.
C18_SnapshotConsistency ==
    lock = NoTask => chan.value = state

\* Witness of C18: both tasks have published from add_trade, no task holds
\* the Mutex, and the channel holds the state that both writes produced.
C18_Witness ==
    /\ lock = NoTask
    /\ \A t \in Tasks : Done(t) /\ wrote[t]
    /\ chan.version = NumTasks
    /\ state # EmptyState
    /\ chan.value = state

\* Task t holds no guard of the state Mutex where the code has none in
\* scope: before its call, while it waits for either lock().await, and after
\* its call has returned.
HoldsNoGuard(t) ==
    pc[t] \in {"idle", "ev_lock", "add_lock", "done"} => lock # t

\* C19.  Deadlock freedom and lock release: under fair scheduling every
\* evaluate_trade and add_trade call that was made returns; a task holds the
\* lock neither after any return of evaluate_trade, the early error returns
\* included, nor when add_trade waits for the lock a second time.
C19_DeadlockFreedom ==
    /\ [](\A t \in Tasks : HoldsNoGuard(t))
    /\ \A t \in Tasks : (pc[t] = "ev_lock") ~> Done(t)

\* Witness of C19: two calls that contended for the lock have both returned,
\* an add_trade that took the lock twice and wrote, and a call that left
\* evaluate_trade by an early error return; the lock is free.
C19_Witness ==
    \E t, u \in Tasks :
        /\ Done(t) /\ op[t] = "add" /\ wrote[t] /\ result[t] = Ok
        /\ Done(u) /\ result[u].kind = "ExceedsDailyVolume"
        /\ lock = NoTask

====
